---------------------------- MODULE Spec2Model ----------------------------
(***************************************************************************)
(* A model of character-stream-rs: the UTF-8 character decoder             *)
(* (CharacterStream), the single- and multi-peek buffers                   *)
(* (PeekableCharacterStream) and the iteration driver (CharacterIterator). *)
(*                                                                         *)
(* A byte source (any std::io::Read) is a finite sequence of read          *)
(* outcomes: a byte value 0..255 (the read returned Ok(1) with that byte), *)
(* or one of the events below.  Past the end of the sequence every read    *)
(* returns Ok(0).                                                          *)
(***************************************************************************)
EXTENDS Integers, Sequences, FiniteSets, TLC

(***************************************************************************)
(* Read outcomes other than a byte.                                        *)
(***************************************************************************)
\* read() returned Ok(0) once; a later read may return data again (a file
\* that is appended to, see the contract of std::io::Read::read).
EvEof == 256
\* read() returned Err(e) with e.kind() == ErrorKind::Interrupted.
EvInterrupted == 257
\* read() returned Err(e) with e.kind() == ErrorKind::UnexpectedEof.
EvUnexpectedEof == 258
\* read() returned Err(e) of any other kind.
EvOtherError == 259

IsByte(e) == e \in 0..255

\* io::Error kinds, as CharacterIterator::next distinguishes them.
ErrorKindOf(e) ==
    IF e = EvInterrupted THEN "Interrupted"
    ELSE IF e = EvUnexpectedEof THEN "UnexpectedEof"
    ELSE "OtherIo"

(***************************************************************************)
(* CharacterStreamResult = Result<char, CharacterError>.  One record shape *)
(* for all variants: ch is the scalar value of Ok, bytes and kind are the  *)
(* fields of IoError and Other (kind names the io::ErrorKind, or which     *)
(* anyhow! message the Other carries).                                     *)
(***************************************************************************)
OkChar(c) == [tag |-> "Ok", ch |-> c, bytes |-> <<>>, kind |-> "none"]
NoBytesRead == [tag |-> "NoBytesRead", ch |-> 0, bytes |-> <<>>, kind |-> "none"]
IoError(b, k) == [tag |-> "IoError", ch |-> 0, bytes |-> b, kind |-> k]
Other(b, k) == [tag |-> "Other", ch |-> 0, bytes |-> b, kind |-> k]

\* U+FFFD REPLACEMENT CHARACTER
ReplacementChar == 65533

(***************************************************************************)
(* The standard library's UTF-8 validation (core::str::from_utf8 and       *)
(* Utf8Chunks, which String::from_utf8_lossy iterates).                    *)
(***************************************************************************)
IsCont(b) == b \in 128..191

\* UTF8_CHAR_WIDTH: the width the first byte announces, 0 if it starts nothing.
Utf8CharWidth(b) ==
    IF b < 128 THEN 1
    ELSE IF b \in 194..223 THEN 2
    ELSE IF b \in 224..239 THEN 3
    ELSE IF b \in 240..244 THEN 4
    ELSE 0

\* The byte at index i, 0 past the end (Utf8Chunks::next's safe_get).
SafeGet(bytes, i) == IF i <= Len(bytes) THEN bytes[i] ELSE 0

\* The second byte of a three-byte sequence: no overlong form, no surrogate.
ValidSecondOf3(b1, b2) ==
    \/ b1 = 224 /\ b2 \in 160..191
    \/ b1 \in 225..236 /\ b2 \in 128..191
    \/ b1 = 237 /\ b2 \in 128..159
    \/ b1 \in 238..239 /\ b2 \in 128..191

\* The second byte of a four-byte sequence: no overlong form, at most U+10FFFF.
ValidSecondOf4(b1, b2) ==
    \/ b1 = 240 /\ b2 \in 144..191
    \/ b1 \in 241..243 /\ b2 \in 128..191
    \/ b1 = 244 /\ b2 \in 128..143

\* One step of Utf8Chunks at index i: a valid scalar value and its width, or an
\* invalid subsequence (a maximal prefix of a valid sequence, at least one byte).
Utf8Step(bytes, i) ==
    LET b1 == bytes[i]
        b2 == SafeGet(bytes, i + 1)
        b3 == SafeGet(bytes, i + 2)
        b4 == SafeGet(bytes, i + 3)
        w  == Utf8CharWidth(b1)
        bad(n) == [ok |-> FALSE, cp |-> ReplacementChar, len |-> n]
    IN  IF w = 1 THEN [ok |-> TRUE, cp |-> b1, len |-> 1]
        ELSE IF w = 2 THEN
            IF ~IsCont(b2) THEN bad(1)
            ELSE [ok |-> TRUE, cp |-> (b1 % 32) * 64 + (b2 % 64), len |-> 2]
        ELSE IF w = 3 THEN
            IF ~ValidSecondOf3(b1, b2) THEN bad(1)
            ELSE IF ~IsCont(b3) THEN bad(2)
            ELSE [ok |-> TRUE,
                  cp |-> (b1 % 16) * 4096 + (b2 % 64) * 64 + (b3 % 64),
                  len |-> 3]
        ELSE IF w = 4 THEN
            IF ~ValidSecondOf4(b1, b2) THEN bad(1)
            ELSE IF ~IsCont(b3) THEN bad(2)
            ELSE IF ~IsCont(b4) THEN bad(3)
            ELSE [ok |-> TRUE,
                  cp |-> (b1 % 8) * 262144 + (b2 % 64) * 4096
                         + (b3 % 64) * 64 + (b4 % 64),
                  len |-> 4]
        ELSE bad(1)

RECURSIVE LossyFrom(_, _)
LossyFrom(bytes, i) ==
    IF i > Len(bytes) THEN <<>>
    ELSE LET s == Utf8Step(bytes, i)
         IN  <<s.cp>> \o LossyFrom(bytes, i + s.len)

\* String::from_utf8_lossy(bytes).chars(): every invalid subsequence becomes
\* one U+FFFD.
from_utf8_lossy(bytes) == LossyFrom(bytes, 1)

RECURSIVE ValidFrom(_, _)
ValidFrom(bytes, i) ==
    IF i > Len(bytes) THEN TRUE
    ELSE LET s == Utf8Step(bytes, i)
         IN  s.ok /\ ValidFrom(bytes, i + s.len)

\* String::from_utf8(bytes).is_ok()
from_utf8_ok(bytes) == ValidFrom(bytes, 1)

\* String::from_utf8(bytes).unwrap().chars(), for bytes that are valid.
from_utf8(bytes) == LossyFrom(bytes, 1)

(***************************************************************************)
(* CharacterStream                                                         *)
(***************************************************************************)
\* remaining_byte_count with the tests of lines 55 and 58 taken in the wrong
\* order of widths: a three-byte leading byte announces three more bytes.
remaining_byte_count_wide(byte) ==
    IF byte \div 128 = 0 THEN 0
    ELSE IF byte \div 32 = 6 THEN 1
    ELSE IF byte \div 16 = 14 THEN 3
    ELSE IF byte \div 8 = 30 THEN 3
    ELSE -1

\* remaining_byte_count: the number of bytes that follow the leading byte;
\* -1 stands for None.
remaining_byte_count(byte) ==
    IF byte \div 128 = 0 THEN 0
    ELSE IF byte \div 32 = 6 THEN 1
    ELSE IF byte \div 16 = 14 THEN 2
    ELSE IF byte \div 8 = 30 THEN 3
    ELSE -1

\* (&mut self.stream).take(amount).bytes().collect(): Take stops reading once
\* `amount` bytes were read and counts successful reads only; Bytes::next ends
\* at Ok(0), retries a read that fails with ErrorKind::Interrupted and yields
\* every other error; collect() goes on after an error.  p is the number of
\* read outcomes of s consumed so far.
RECURSIVE Collect(_, _, _, _, _)
Collect(s, p, need, bytes, errs) ==
    IF need = 0 \/ p >= Len(s) THEN [bytes |-> bytes, errs |-> errs, pos |-> p]
    ELSE LET e == s[p + 1]
         IN  IF IsByte(e) THEN Collect(s, p + 1, need - 1, Append(bytes, e), errs)
             ELSE IF e = EvEof THEN [bytes |-> bytes, errs |-> errs, pos |-> p + 1]
             ELSE IF e = EvInterrupted THEN Collect(s, p + 1, need, bytes, errs)
             ELSE Collect(s, p + 1, need, bytes, Append(errs, e))

\* read_bytes, lines 114-129, on what collect() gathered: Ok(bytes) is
\* [ok |-> TRUE, bytes], Err(e) is [ok |-> FALSE, err]; pos is the reader after.
read_bytes_result(c, amount) ==
    IF c.errs # <<>>
    THEN [ok |-> FALSE, bytes |-> <<>>, pos |-> c.pos,
          err |-> IoError(c.bytes, ErrorKindOf(c.errs[1]))]
    ELSE IF Len(c.bytes) = 0
    THEN [ok |-> FALSE, bytes |-> <<>>, pos |-> c.pos, err |-> NoBytesRead]
    ELSE IF Len(c.bytes) # amount
    THEN [ok |-> FALSE, bytes |-> <<>>, pos |-> c.pos,
          err |-> Other(c.bytes, "short")]
    ELSE [ok |-> TRUE, bytes |-> c.bytes, pos |-> c.pos, err |-> NoBytesRead]

\* read_bytes
read_bytes(s, p, amount) ==
    read_bytes_result(Collect(s, p, amount, <<>>, <<>>), amount)

\* read_byte
read_byte(s, p) == read_bytes(s, p, 1)

\* lines 169-178: exactly one character, or an error holding the bytes.
one_char(bytes, chars) ==
    IF Len(chars) = 1 THEN OkChar(chars[1]) ELSE Other(bytes, "count")

\* decode_bytes capturing the leading byte alone in its errors.
decode_bytes_lead_only(bytes, lossy) ==
    IF lossy THEN one_char(<<bytes[1]>>, from_utf8_lossy(bytes))
    ELSE IF ~from_utf8_ok(bytes) THEN Other(<<bytes[1]>>, "utf8")
    ELSE one_char(<<bytes[1]>>, from_utf8(bytes))

\* lines 153-178: the decoding of the bytes of one character.
decode_bytes(bytes, lossy) ==
    IF lossy THEN one_char(bytes, from_utf8_lossy(bytes))
    ELSE IF ~from_utf8_ok(bytes) THEN Other(bytes, "utf8")
    ELSE one_char(bytes, from_utf8(bytes))

\* line 150: bytes.extend(self.read_bytes(remaining_count)?), then the decoding.
read_char_rest(b, lossy, rest) ==
    IF ~rest.ok THEN [res |-> rest.err, pos |-> rest.pos]
    ELSE [res |-> decode_bytes(<<b>> \o rest.bytes, lossy), pos |-> rest.pos]

\* on_invalid_lead failing with no byte captured.
on_invalid_lead_empty(b, lossy) ==
    IF lossy THEN OkChar(ReplacementChar) ELSE Other(<<>>, "start")

\* lines 180-189: the leading byte announces no character.
on_invalid_lead(b, lossy) ==
    IF lossy THEN OkChar(ReplacementChar) ELSE Other(<<b>>, "start")

\* lines 146-189: read_char once the leading byte b was read, the reader at p.
read_char_lead(s, p, lossy, b, n) ==
    IF n = -1
    THEN [res |-> on_invalid_lead(b, lossy), pos |-> p]
    ELSE IF n = 0
    THEN [res |-> decode_bytes(<<b>>, lossy), pos |-> p]
    ELSE read_char_rest(b, lossy, read_bytes(s, p, n))

\* lines 145 and 191: read_char on the result of read_byte.
read_char_first(s, lossy, first) ==
    IF ~first.ok THEN [res |-> first.err, pos |-> first.pos]
    ELSE read_char_lead(s, first.pos, lossy, first.bytes[1],
                        remaining_byte_count(first.bytes[1]))

\* CharacterStream::read_char: the result and the reader after it.
read_char(s, p, lossy) == read_char_first(s, lossy, read_byte(s, p))

(***************************************************************************)
(* The state.  src and pos are the Reader (its read outcomes and how many  *)
(* of them were consumed); lossy is CharacterStream::is_lossy; kind is the *)
(* type of the stream: "Plain" (CharacterStream), "Peek" and "MultiPeek"   *)
(* (PeekableCharacterStream<_, Peek> and <_, MultiPeek>) or "Custom" (any  *)
(* other implementation of the CharStream trait, for CharacterIterator);   *)
(* buffer and position are the fields of PeekableCharacterStream;          *)
(* interrupted_count and done are the fields of CharacterIterator.         *)
(* panicked records that a call panicked.  The other variables record what *)
(* the calls returned: out every result of a consuming call (read_char or  *)
(* next) in order, last the latest call and its return value; and, for a   *)
(* peek buffer used directly, peeked the returns of its peek() calls since *)
(* the latest reset_peek() or read_char(), prevWin that window as it was   *)
(* before the latest reset_peek() or read_char() and what the read         *)
(* returned.                                                               *)
(***************************************************************************)
VARIABLES src, pos, lossy, kind, buffer, position, interrupted_count, done,
          panicked, out, last, peeked, prevWin

vars == <<src, pos, lossy, kind, buffer, position, interrupted_count, done,
          panicked, out, last, peeked, prevWin>>

\* Option::None, as the return of peek() and next().
None == [tag |-> "None", ch |-> 0, bytes |-> <<>>, kind |-> "none"]

\* The reader and the fields of the stream that a call changes.
StreamState == [pos |-> pos, buffer |-> buffer, position |-> position]

(***************************************************************************)
(* PeekableCharacterStream                                                 *)
(***************************************************************************)
\* The stream st after the decoder returned r.
after_read(st, r) == [res |-> r.res, st |-> [st EXCEPT !.pos = r.pos]]

\* _read_char: buffer.pop_front().unwrap_or_else(|| self.stream.read_char())
peekable_read_char(s, l, st) ==
    IF st.buffer # <<>>
    THEN [res |-> Head(st.buffer), st |-> [st EXCEPT !.buffer = Tail(st.buffer)]]
    ELSE after_read(st, read_char(s, st.pos, l))

\* Peekable::peek of the single-peek buffer, line 280: is the result cached?
peek_is_cached(buf) == Len(buf) = 1

\* peek_push without the push_back: the result is returned, not cached.
peek_push_forgotten(r) == [ret |-> r.res, st |-> r.st, panic |-> FALSE]

\* lines 285-287: push_back the result read and return the front.
peek_push(r) ==
    [ret |-> Head(Append(r.st.buffer, r.res)),
     st |-> [r.st EXCEPT !.buffer = Append(@, r.res)],
     panic |-> FALSE]

\* Peekable::peek of the single-peek buffer.
peek_single(s, l, st) ==
    IF peek_is_cached(st.buffer)
    THEN [ret |-> Head(st.buffer), st |-> st, panic |-> FALSE]
    ELSE peek_push(peekable_read_char(s, l, st))

\* reset_peek leaving the cursor where it is.
reset_peek_kept(st) == st

\* MultiPeekable::reset_peek
reset_peek(st) == [st EXCEPT !.position = 0]

\* lines 298-304 and 307: peek past the cached results, the decoder having
\* returned r.  The index buffer[position] after the push panics when
\* position is past the pushed element; position is then not advanced.
peek_multi_read(st, r) ==
    IF r.res = NoBytesRead
    THEN [ret |-> None,
          st |-> [st EXCEPT !.pos = r.pos, !.position = @ + 1],
          panic |-> FALSE]
    ELSE IF st.position < Len(st.buffer) + 1
    THEN [ret |-> Append(st.buffer, r.res)[st.position + 1],
          st |-> [st EXCEPT !.pos = r.pos, !.buffer = Append(@, r.res),
                            !.position = @ + 1],
          panic |-> FALSE]
    ELSE [ret |-> None,
          st |-> [st EXCEPT !.pos = r.pos, !.buffer = Append(@, r.res)],
          panic |-> TRUE]

\* MultiPeekable::peek
peek_multi(s, l, st) ==
    IF st.position < Len(st.buffer)
    THEN [ret |-> st.buffer[st.position + 1],
          st |-> [st EXCEPT !.position = @ + 1], panic |-> FALSE]
    ELSE peek_multi_read(st, read_char(s, st.pos, l))

\* CharStream::read_char for PeekableCharacterStream<Reader, Peek>
peek_stream_read_char(s, l, st) == peekable_read_char(s, l, st)

\* CharStream::read_char for PeekableCharacterStream<Reader, MultiPeek>
multi_stream_read_char(s, l, st) == peekable_read_char(s, l, reset_peek(st))

(***************************************************************************)
(* Any other implementation of the CharStream trait: read_char returns one *)
(* scripted result per call.  The script is written with the read outcomes *)
(* of a byte source: a byte b stands for Ok(b as char), EvEof for          *)
(* NoBytesRead, the three error events for an IoError of that kind, and    *)
(* EvDecodeError for CharacterError::Other.                                *)
(***************************************************************************)
EvDecodeError == 260

custom_result(e) ==
    IF IsByte(e) THEN OkChar(e)
    ELSE IF e = EvEof THEN NoBytesRead
    ELSE IF e = EvDecodeError THEN Other(<<>>, "custom")
    ELSE IoError(<<>>, ErrorKindOf(e))

custom_read_char(s, st) ==
    IF st.pos >= Len(s) THEN [res |-> NoBytesRead, st |-> st]
    ELSE [res |-> custom_result(s[st.pos + 1]), st |-> [st EXCEPT !.pos = @ + 1]]

\* self.stream.read_char() through the CharStream trait.
stream_read_char(k, s, l, st) ==
    IF k = "Plain" THEN after_read(st, read_char(s, st.pos, l))
    ELSE IF k = "Peek" THEN peek_stream_read_char(s, l, st)
    ELSE IF k = "MultiPeek" THEN multi_stream_read_char(s, l, st)
    ELSE custom_read_char(s, st)

(***************************************************************************)
(* CharacterIterator                                                       *)
(***************************************************************************)
INTERRUPTED_MAXIMUM == 5

\* may_retry allowing one retry more.
may_retry_once_more(count) == count <= INTERRUPTED_MAXIMUM + 1

\* line 120: may an interrupted read be retried?
may_retry(count) == count <= INTERRUPTED_MAXIMUM

\* count_after_ok without the reset.
count_after_ok_kept(count) == count

\* lines 104-106: the counter after a character was read.
count_after_ok(count) == IF count > 0 THEN 0 ELSE count

\* lines 132 and 134: the counter after an error is yielded (left as it is).
count_after_error(count) == count

\* lines 99-101: a finished iterator reads nothing.
next_is_done(d) == d

\* on_no_bytes_read falling through to `other => Some(Err(other))`.
on_no_bytes_read_yields(r, count) ==
    [ret |-> r.res, st |-> r.st, count |-> count, done |-> FALSE]

\* lines 111-114: NoBytesRead ends the iteration and yields nothing.
on_no_bytes_read(r, count) ==
    [ret |-> None, st |-> r.st, count |-> count, done |-> TRUE]

\* on_error ending the iteration after it yielded the error.
on_error_ends(r, count, d) ==
    [ret |-> r.res, st |-> r.st, count |-> count_after_error(count),
     done |-> TRUE]

\* lines 132 and 134: any other error is yielded as an element.
on_error(r, count, d) ==
    [ret |-> r.res, st |-> r.st, count |-> count_after_error(count), done |-> d]

\* on_give_up yielding the interrupted read as an element.
on_give_up_yields(r, count) ==
    [ret |-> r.res, st |-> r.st, count |-> count, done |-> FALSE]

\* lines 123-126: too many interrupted reads end the iteration.
on_give_up(r, count) ==
    [ret |-> None, st |-> r.st, count |-> count, done |-> TRUE]

\* Iterator::next: the element returned (None for no element), the stream
\* after it and the driver's fields.  next_on is the match of lines 102-136
\* on the result r of self.stream.read_char().
RECURSIVE iter_next(_, _, _, _, _, _)
next_on(k, s, l, count, d, r) ==
    IF r.res.tag = "Ok"
    THEN [ret |-> r.res, st |-> r.st, count |-> count_after_ok(count), done |-> d]
    ELSE IF r.res.tag = "NoBytesRead"
    THEN on_no_bytes_read(r, count)
    ELSE IF r.res.tag = "IoError" /\ r.res.kind = "Interrupted"
    THEN IF may_retry(count)
         THEN iter_next(k, s, l, r.st, count + 1, d)
         ELSE on_give_up(r, count)
    ELSE IF r.res.tag = "IoError" /\ r.res.kind = "UnexpectedEof"
    THEN [ret |-> None, st |-> r.st, count |-> count, done |-> TRUE]
    ELSE on_error(r, count, d)

iter_next(k, s, l, st, count, d) ==
    IF next_is_done(d)
    THEN [ret |-> None, st |-> st, count |-> count, done |-> d]
    ELSE next_on(k, s, l, count, d, stream_read_char(k, s, l, st))

\* The conversion building a fresh driver (done: false) around the buffer.
converted_done_fresh(d) == FALSE

\* CharacterIterator::peek(self) and peek_multi(self): the fields carried over.
converted_done(d) == d
converted_count(count) == count

(***************************************************************************)
(* Bounds and inputs                                                       *)
(***************************************************************************)
\* The longest byte source of the decoder's specification.
MaxLen == 4
\* The longest byte source under a peek buffer.
MaxPeekLen == 3
\* The longest byte source, or script, under the iteration driver.
MaxIterLen == 3
\* The longest run of interrupted reads a custom stream starts with.
MaxInterrupts == 7
\* Consuming calls made beyond one per read outcome of the source.
ExtraReads == 2

SeqsUpTo(S, n) == UNION {[1..k -> S] : k \in 0..n}

\* 'a'; the two bytes of U+00E9; with 0xE2 0x82 the three bytes of U+20A9;
\* with 0xF0 the four bytes of U+290A9; 0xFF, which starts nothing.  0xA9
\* and 0x82 are continuation bytes, invalid as leading bytes.
SampleBytes == {97, 195, 169, 226, 130, 240, 255}

\* The inputs the specification's section 8 names: "ab" U+20AC and "Hello".
ExampleAbEuro == <<97, 98, 226, 130, 172>>
ExampleHello == <<72, 101, 108, 108, 111>>
Examples == {ExampleAbEuro, ExampleHello}

Interrupts(n) == [i \in 1..n |-> EvInterrupted]

\* Every byte value as a leading byte, followed by continuation bytes or
\* by bytes that are none.
LeadingSources ==
    {<<b>> \o t : b \in 0..255, t \in {<<130, 130, 130, 97>>, <<97, 97, 97>>}}

DecoderSources ==
    SeqsUpTo(SampleBytes \cup {EvEof, EvInterrupted, EvOtherError}, MaxLen)
    \cup Examples
    \cup LeadingSources

PeekSources ==
    SeqsUpTo({97, 195, 169, EvEof, EvOtherError}, MaxPeekLen)

\* Inputs that end inside a character: a leading byte and fewer continuation
\* bytes than it announces, alone or after 'a'.
TruncatedEnds ==
    {<<195>>, <<226>>, <<226, 130>>, <<240>>, <<240, 144>>, <<240, 144, 130>>}
TruncatedSources == TruncatedEnds \cup {<<97>> \o t : t \in TruncatedEnds}

IterSources ==
    SeqsUpTo({97, 195, 169, EvEof, EvUnexpectedEof, EvOtherError}, MaxIterLen)
    \cup {Interrupts(n) : n \in 1..MaxInterrupts}
    \cup Examples
    \cup TruncatedSources

\* Scripts of a custom stream: any short script, and a run of interrupted
\* reads followed by at most one other result and at most one interrupted
\* read more.
CustomScripts ==
    SeqsUpTo({97, EvEof, EvInterrupted, EvUnexpectedEof, EvOtherError,
              EvDecodeError}, MaxIterLen)
    \cup {Interrupts(n) \o t \o u :
            n \in 1..MaxInterrupts,
            t \in SeqsUpTo({97, EvOtherError, EvDecodeError}, 1),
            u \in SeqsUpTo({EvInterrupted}, 1)}

(***************************************************************************)
(* Initial states                                                          *)
(***************************************************************************)
InitFields ==
    /\ pos = 0
    /\ buffer = <<>>
    /\ position = 0
    /\ interrupted_count = 0
    /\ done = FALSE
    /\ panicked = FALSE
    /\ out = <<>>
    /\ last = [op |-> "new", ret |-> None]
    /\ peeked = <<>>
    /\ prevWin = [how |-> "new", win |-> <<>>, ret |-> None]

\* CharacterStream::new(stream, is_lossy)
InitDecoder ==
    /\ src \in DecoderSources
    /\ lossy \in BOOLEAN
    /\ kind = "Plain"
    /\ InitFields

\* PeekableCharacterStream::new(stream, is_lossy), peeky(), peeky_multi()
InitPeekBuffer ==
    /\ src \in PeekSources
    /\ lossy \in BOOLEAN
    /\ kind \in {"Peek", "MultiPeek"}
    /\ InitFields

\* CharacterIterator::new(stream)
InitIter ==
    /\ \/ kind = "Custom" /\ src \in CustomScripts /\ lossy = FALSE
       \/ kind = "Plain" /\ src \in IterSources /\ lossy \in BOOLEAN
    /\ InitFields

(***************************************************************************)
(* Actions: one per call                                                   *)
(***************************************************************************)
\* ReadChar, on what the call returns
ReadCharReturns(r) ==
    /\ pos' = r.st.pos
    /\ buffer' = r.st.buffer
    /\ position' = r.st.position
    /\ out' = Append(out, r.res)
    /\ last' = [op |-> "read_char", ret |-> r.res]
    /\ prevWin' = [how |-> "read", win |-> peeked, ret |-> r.res]
    /\ peeked' = <<>>

\* stream.read_char(), of a CharacterStream or a PeekableCharacterStream
ReadChar ==
    /\ ~panicked
    /\ kind # "Custom"
    /\ Len(out) < Len(src) + ExtraReads
    /\ ReadCharReturns(stream_read_char(kind, src, lossy, StreamState))
    /\ UNCHANGED <<src, lossy, kind, interrupted_count, done, panicked>>

\* PeekSingle, on what the call returns
PeekSingleReturns(r) ==
    /\ pos' = r.st.pos
    /\ buffer' = r.st.buffer
    /\ position' = r.st.position
    /\ last' = [op |-> "peek", ret |-> r.ret]
    /\ peeked' = Append(peeked, r.ret)

\* peek() of the single-peek buffer
PeekSingle ==
    /\ ~panicked
    /\ kind = "Peek"
    /\ Len(peeked) <= Len(src)
    /\ PeekSingleReturns(peek_single(src, lossy, StreamState))
    /\ UNCHANGED <<src, lossy, kind, interrupted_count, done, panicked, out,
                   prevWin>>

\* PeekMulti, on what the call returns
PeekMultiReturns(r) ==
    /\ pos' = r.st.pos
    /\ buffer' = r.st.buffer
    /\ position' = r.st.position
    /\ panicked' = r.panic
    /\ last' = [op |-> IF r.panic THEN "peek_panic" ELSE "peek",
                ret |-> r.ret]
    /\ peeked' = IF r.panic THEN peeked ELSE Append(peeked, r.ret)

\* peek() of the multi-peek buffer
PeekMulti ==
    /\ ~panicked
    /\ kind = "MultiPeek"
    /\ position <= Len(src)
    /\ PeekMultiReturns(peek_multi(src, lossy, StreamState))
    /\ UNCHANGED <<src, lossy, kind, interrupted_count, done, out, prevWin>>

\* reset_peek() of the multi-peek buffer
ResetPeek ==
    /\ ~panicked
    /\ kind = "MultiPeek"
    /\ position' = reset_peek(StreamState).position
    /\ last' = [op |-> "reset_peek", ret |-> None]
    /\ prevWin' = [how |-> "reset", win |-> peeked, ret |-> None]
    /\ peeked' = <<>>
    /\ UNCHANGED <<src, pos, lossy, kind, buffer, interrupted_count, done,
                   panicked, out>>

\* IterNext, on what the call returns
IterNextReturns(r) ==
    /\ pos' = r.st.pos
    /\ buffer' = r.st.buffer
    /\ position' = r.st.position
    /\ interrupted_count' = r.count
    /\ done' = r.done
    /\ out' = Append(out, r.ret)
    /\ last' = [op |-> "next", ret |-> r.ret]

\* CharacterIterator::next()
IterNext ==
    /\ ~panicked
    /\ Len(out) < Len(src) + ExtraReads
    /\ IterNextReturns(iter_next(kind, src, lossy, StreamState, interrupted_count, done))
    /\ UNCHANGED <<src, lossy, kind, panicked, peeked, prevWin>>

\* IterPeek, on what the call returns
IterPeekReturns(r) ==
    /\ pos' = r.st.pos
    /\ buffer' = r.st.buffer
    /\ position' = r.st.position
    /\ last' = [op |-> "peek", ret |-> r.ret]

\* CharacterIterator::peek(&mut self) over a single-peek buffer
IterPeek ==
    /\ ~panicked
    /\ kind = "Peek"
    /\ IterPeekReturns(peek_single(src, lossy, StreamState))
    /\ UNCHANGED <<src, lossy, kind, interrupted_count, done, panicked, out,
                   peeked, prevWin>>

\* IterPeekMulti, on what the call returns
IterPeekMultiReturns(r) ==
    /\ pos' = r.st.pos
    /\ buffer' = r.st.buffer
    /\ position' = r.st.position
    /\ panicked' = r.panic
    /\ last' = [op |-> IF r.panic THEN "peek_panic" ELSE "peek",
                ret |-> r.ret]

\* CharacterIterator::peek(&mut self) over a multi-peek buffer
IterPeekMulti ==
    /\ ~panicked
    /\ kind = "MultiPeek"
    /\ position <= Len(src)
    /\ IterPeekMultiReturns(peek_multi(src, lossy, StreamState))
    /\ UNCHANGED <<src, lossy, kind, interrupted_count, done, out, peeked,
                   prevWin>>

\* CharacterIterator::reset_peek(&mut self)
IterResetPeek ==
    /\ ~panicked
    /\ kind = "MultiPeek"
    /\ position' = reset_peek(StreamState).position
    /\ last' = [op |-> "reset_peek", ret |-> None]
    /\ UNCHANGED <<src, pos, lossy, kind, buffer, interrupted_count, done,
                   panicked, out, peeked, prevWin>>

\* CharacterIterator::peek(self): wrap the stream into a single-peek buffer
ToPeek ==
    /\ kind = "Plain"
    /\ kind' = "Peek"
    /\ buffer' = <<>>
    /\ position' = 0
    /\ interrupted_count' = converted_count(interrupted_count)
    /\ done' = converted_done(done)
    /\ last' = [op |-> "into_peek", ret |-> None]
    /\ UNCHANGED <<src, pos, lossy, panicked, out, peeked, prevWin>>

\* CharacterIterator::peek_multi(self): wrap it into a multi-peek buffer
ToPeekMulti ==
    /\ kind = "Plain"
    /\ kind' = "MultiPeek"
    /\ buffer' = <<>>
    /\ position' = 0
    /\ interrupted_count' = converted_count(interrupted_count)
    /\ done' = converted_done(done)
    /\ last' = [op |-> "into_peek_multi", ret |-> None]
    /\ UNCHANGED <<src, pos, lossy, panicked, out, peeked, prevWin>>

(***************************************************************************)
(* Specifications                                                          *)
(***************************************************************************)
\* A character decoder read directly.
NextDecoder == ReadChar
SpecDecoder == InitDecoder /\ [][NextDecoder]_vars

\* A peek buffer used directly.
NextPeekBuffer == ReadChar \/ PeekSingle \/ PeekMulti \/ ResetPeek
SpecPeekBuffer == InitPeekBuffer /\ [][NextPeekBuffer]_vars

\* An iteration driver over a decoder, a peek buffer or a custom stream.
Next ==
    \/ IterNext
    \/ IterPeek
    \/ IterPeekMulti
    \/ IterResetPeek
    \/ ToPeek
    \/ ToPeekMulti
Spec == InitIter /\ [][Next]_vars

(***************************************************************************)
(* Reference definitions of the properties                                 *)
(***************************************************************************)
IsByteSource(s) == \A i \in 1..Len(s) : IsByte(s[i])

\* A finite input that is valid UTF-8, read without I/O errors.
ValidText(s) == IsByteSource(s) /\ from_utf8_ok(s)

\* A source that raises no I/O error.
NoIoError(s) ==
    \A i \in 1..Len(s) : s[i] \notin {EvInterrupted, EvUnexpectedEof, EvOtherError}

\* The UTF-8 encoding of a scalar value (char::encode_utf8).
EncodeChar(c) ==
    IF c < 128 THEN <<c>>
    ELSE IF c < 2048 THEN <<192 + (c \div 64), 128 + (c % 64)>>
    ELSE IF c < 65536
    THEN <<224 + (c \div 4096), 128 + ((c \div 64) % 64), 128 + (c % 64)>>
    ELSE <<240 + (c \div 262144), 128 + ((c \div 4096) % 64),
           128 + ((c \div 64) % 64), 128 + (c % 64)>>

\* The concatenated encodings of the characters of the results rs.
RECURSIVE EncodeResults(_)
EncodeResults(rs) ==
    IF rs = <<>> THEN <<>>
    ELSE (IF Head(rs).tag = "Ok" THEN EncodeChar(Head(rs).ch) ELSE <<>>)
         \o EncodeResults(Tail(rs))

IsOkResult(r) == r.tag = "Ok"

\* The characters among the results rs, in order.
OkChars(rs) ==
    [i \in 1..Len(SelectSeq(rs, IsOkResult)) |-> SelectSeq(rs, IsOkResult)[i].ch]

\* The first n results of read_char() on a bare CharacterStream over s,
\* the reader at p.
RECURSIVE BareRun(_, _, _, _)
BareRunAfter(s, l, n, r) == <<r.res>> \o BareRun(s, l, r.pos, n - 1)
BareRun(s, l, p, n) ==
    IF n = 0 THEN <<>> ELSE BareRunAfter(s, l, n, read_char(s, p, l))

\* The reader after n calls of read_char() on a bare CharacterStream over s.
RECURSIVE BarePos(_, _, _, _)
BarePos(s, l, p, n) ==
    IF n = 0 THEN p ELSE BarePos(s, l, read_char(s, p, l).pos, n - 1)

\* What n consuming calls return on the valid text s: its characters in
\* order, then `after` on every further call.
ExpectedOn(s, n, after) ==
    [i \in 1..n |-> IF i <= Len(from_utf8(s)) THEN OkChar(from_utf8(s)[i])
                    ELSE after]

(***************************************************************************)
(* Properties                                                              *)
(***************************************************************************)
\* C1: on a valid UTF-8 input, repeated read_char() on a CharacterStream
\* (strict or lossy) returns the input's scalar values in order, one per call,
\* and NoBytesRead on every call after the last character; the encodings of
\* the characters returned, concatenated, are a prefix of the input and, once
\* NoBytesRead was returned, the whole input.
C1_RoundTrip ==
    (kind = "Plain" /\ ValidText(src)) =>
        /\ out = ExpectedOn(src, Len(out), NoBytesRead)
        /\ EncodeResults(out) = SubSeq(src, 1, Len(EncodeResults(out)))
        /\ (out # <<>> /\ out[Len(out)] = NoBytesRead => EncodeResults(out) = src)

\* A valid text with a multi-byte character was read to its end and beyond.
C1_Witness ==
    /\ kind = "Plain"
    /\ ValidText(src)
    /\ Len(from_utf8(src)) >= 2
    /\ Len(src) >= Len(from_utf8(src)) + 2
    /\ Len(out) = Len(from_utf8(src)) + 2
    /\ out[Len(out)] = NoBytesRead

\* C3: in lossy mode read_char() on a source that raises no I/O error returns
\* a character or NoBytesRead, never CharacterError::Other.
C3_LossyNeverErrs ==
    (kind = "Plain" /\ lossy /\ NoIoError(src)) =>
        \A i \in 1..Len(out) : out[i].tag \in {"Ok", "NoBytesRead"}

\* C4: in lossy mode the characters repeated read_char() produces on a finite
\* byte input, read to its end, are the standard lossy decoding of the whole
\* input.
C4_LossyIsStandard ==
    (kind = "Plain" /\ lossy /\ IsByteSource(src)
        /\ out # <<>> /\ out[Len(out)] = NoBytesRead) =>
        OkChars(out) = from_utf8_lossy(src)

\* C2: over a valid UTF-8 input of n characters read without I/O errors,
\* CharacterIterator::next yields the n characters in order as Ok elements, and
\* no element on every later pull (over a decoder or either peek buffer, with
\* any peeks in between).
C2_IterYieldsText ==
    (kind # "Custom" /\ ValidText(src)) => out = ExpectedOn(src, Len(out), None)

\* "ab" U+20AC was pulled to its end and twice more.
C2_Witness ==
    /\ src = ExampleAbEuro
    /\ done
    /\ out = <<OkChar(97), OkChar(98), OkChar(8364), None, None>>

\* C5: over a source that interrupts every read (here at least the first
\* INTERRUPTED_MAXIMUM + 2 of them), the first next() yields no element, leaves
\* the driver done and has made exactly INTERRUPTED_MAXIMUM + 1 = 6 read
\* attempts.
C5_SixAttempts ==
    (src = Interrupts(Len(src)) /\ Len(src) >= INTERRUPTED_MAXIMUM + 2
        /\ out # <<>>) =>
        (out[1] = None /\ done /\ pos = INTERRUPTED_MAXIMUM + 1)

\* C9: once done is true it stays true and every later next() returns no
\* element without reading the stream, whatever the source holds and across
\* the conversions into a peek buffer.
C9_DoneIsAbsorbing ==
    [][done => (done' /\ (out' # out => (last'.ret = None /\ pos' = pos)))]_vars

\* A finished driver over a peek buffer was pulled again while its source
\* still has something to return.
C9_Witness ==
    /\ done
    /\ kind \in {"Peek", "MultiPeek"}
    /\ last.op = "next"
    /\ pos < Len(src)
    /\ Len(out) >= 2
    /\ out[Len(out) - 1] = None

\* C10: after every next() that returns Some(Err(_)), interrupted_count = 0.
C10_ErrorResetsCount ==
    (last.op = "next" /\ last.ret.tag \in {"IoError", "Other"}) =>
        interrupted_count = 0

\* C6: the results read_char() returns on a peek buffer, under any
\* interleaving with peek() and reset_peek(), are the results read_char()
\* returns on a bare CharacterStream over the same source.
C6_PeekKeepsReads ==
    kind \in {"Peek", "MultiPeek"} => out = BareRun(src, lossy, 0, Len(out))

\* C7: single-peek buffer: all the peek() calls made since the last read
\* return the same result, the decoder's next one, and read the decoder once;
\* the next read_char() returns that result and leaves the cache empty.
C7_SinglePeek ==
    kind = "Peek" =>
        /\ \A i \in 1..Len(peeked) :
              peeked[i] = BareRun(src, lossy, 0, Len(out) + 1)[Len(out) + 1]
        /\ pos = BarePos(src, lossy, 0,
                         Len(out) + (IF peeked = <<>> THEN 0 ELSE 1))
        /\ (prevWin.how = "read" /\ prevWin.win # <<>>) =>
              prevWin.ret = prevWin.win[1]
        /\ last.op = "read_char" => buffer = <<>>

\* Two peeks, a read that returned a character, and two peeks again.
C7_Witness ==
    /\ kind = "Peek"
    /\ prevWin.how = "read"
    /\ Len(prevWin.win) >= 2
    /\ prevWin.ret.tag = "Ok"
    /\ Len(peeked) >= 2
    /\ peeked[1].tag = "Ok"
    /\ peeked[1] # prevWin.ret

NoNone(w) == \A i \in 1..Len(w) : w[i] # None

\* C8: multi-peek buffer: K peeks after reset_peek() return the first K
\* results of the window peeked before it; after a read_char(), which returns
\* the first result of the window, K peeks return the results 2..K+1 of it
\* (the windows holding results, not None).
C8_MultiPeekWindow ==
    kind = "MultiPeek" =>
        /\ (/\ prevWin.how = "reset"
            /\ Len(peeked) <= Len(prevWin.win)
            /\ NoNone(SubSeq(prevWin.win, 1, Len(peeked))))
           => peeked = SubSeq(prevWin.win, 1, Len(peeked))
        /\ (/\ prevWin.how = "read"
            /\ Len(peeked) + 1 <= Len(prevWin.win)
            /\ NoNone(SubSeq(prevWin.win, 1, Len(peeked) + 1)))
           => /\ prevWin.ret = prevWin.win[1]
              /\ peeked = SubSeq(prevWin.win, 2, Len(peeked) + 1)

\* Three results were peeked, one was read, and two were peeked again.
C8_Witness ==
    /\ kind = "MultiPeek"
    /\ prevWin.how = "read"
    /\ Len(prevWin.win) = 3
    /\ NoNone(prevWin.win)
    /\ prevWin.win[1] # prevWin.win[2]
    /\ Len(peeked) = 2

\* What next() makes of a result of the stream that is not an interrupted
\* read: a character or an error is the element, anything else is no element.
DriverView(r) ==
    IF r.tag = "Ok" \/ r.tag = "Other" THEN r
    ELSE IF r.tag = "IoError" /\ r.kind = "OtherIo" THEN r
    ELSE None

\* The elements n pulls yield over a bare CharacterStream on s: the results
\* of its successive reads, up to the first that is no element, then nothing.
DriverRun(s, l, n) ==
    [i \in 1..n |->
        IF \E j \in 1..(i - 1) : DriverView(BareRun(s, l, 0, n)[j]) = None
        THEN None
        ELSE DriverView(BareRun(s, l, 0, n)[i])]

\* C11: a decode error and an I/O error that is neither Interrupted nor
\* UnexpectedEof are yielded by next() as elements and leave done false; over
\* a CharacterStream the pull after one reads on from where the failed read
\* stopped: the elements are the results of the decoder's successive reads.
C11_ErrorsAreYielded ==
    /\ (last.op = "next" /\ last.ret.tag \in {"IoError", "Other"}) => ~done
    /\ kind = "Plain" =>
          /\ out = DriverRun(src, lossy, Len(out))
          /\ ~done => pos = BarePos(src, lossy, 0, Len(out))

\* A decode error, then a character, then an I/O error were yielded.
C11_Witness ==
    /\ kind = "Plain"
    /\ ~done
    /\ Len(out) = 3
    /\ out[1].tag = "Other"
    /\ out[2].tag = "Ok"
    /\ out[3].tag = "IoError"

\* The number of continuation bytes a leading byte announces by its high
\* bits: 0xxxxxxx 0, 110xxxxx 1, 1110xxxx 2, 11110xxx 3; -1 for any other.
ExpectedCount(b) ==
    IF b \in 0..127 THEN 0
    ELSE IF b \in 192..223 THEN 1
    ELSE IF b \in 224..239 THEN 2
    ELSE IF b \in 240..247 THEN 3
    ELSE -1

\* A leading byte followed by fewer continuation bytes than it announces.
Truncated(s) ==
    /\ IsByteSource(s)
    /\ s # <<>>
    /\ Len(s) - 1 < ExpectedCount(s[1])
    /\ \A i \in 2..Len(s) : IsCont(s[i])

\* A valid text followed by a truncated character, at the end of the input.
EndsTruncated(s) ==
    \E k \in 0..(Len(s) - 1) :
        /\ ValidText(SubSeq(s, 1, k))
        /\ Truncated(SubSeq(s, k + 1, Len(s)))

\* C12: over an input that ends after a leading byte and none or only some
\* of its continuation bytes, once the input was read to its end the driver
\* is done and has yielded no element but the characters before.
C12_TruncatedEndIsSilent ==
    (kind = "Plain" /\ EndsTruncated(src) /\ pos = Len(src)) =>
        /\ done
        /\ \A i \in 1..Len(out) : out[i].tag \in {"Ok", "None"}

\* The next read outcome of the source is a byte.
NextIsByte == pos < Len(src) /\ IsByte(src[pos + 1])

\* The n read outcomes after the next one are there and are bytes.
BytesFollow(n) ==
    /\ pos + 1 + n <= Len(src)
    /\ \A j \in 1..n : IsByte(src[pos + 1 + j])

\* 10xxxxxx or 11111xxx
InvalidLead(b) == b \in 128..191 \/ b \in 248..255

\* C13: when the next byte of the source is an invalid leading byte,
\* read_char() consumes that byte alone and returns U+FFFD in lossy mode, and
\* in strict mode CharacterError::Other whose bytes are that single byte.
C13_InvalidLeadingByte ==
    [][(kind = "Plain" /\ NextIsByte /\ InvalidLead(src[pos + 1])) =>
          /\ pos' = pos + 1
          /\ last'.ret = IF lossy THEN OkChar(65533)
                         ELSE Other(<<src[pos + 1]>>, "start")
      ]_vars

\* Strict mode: 0xFF was refused after a character was read, with more bytes
\* behind it.
C13_Witness ==
    /\ kind = "Plain"
    /\ ~lossy
    /\ Len(out) = 2
    /\ out[1].tag = "Ok"
    /\ last.ret = Other(<<255>>, "start")
    /\ pos = 2
    /\ pos < Len(src)

\* The n + 1 read outcomes of the source from the next one on.
NextChunk(n) == SubSeq(src, pos + 1, pos + 1 + n)

\* C14: strict mode: when the next byte is a valid leading byte, its full
\* count of continuation bytes follows and the bytes together are not valid
\* UTF-8, read_char() consumes them and returns CharacterError::Other whose
\* bytes are exactly those bytes, in the order of the source.
C14_StrictErrorHoldsBytes ==
    [][\A n \in 0..3 :
          (/\ kind = "Plain" /\ ~lossy
           /\ NextIsByte
           /\ ExpectedCount(src[pos + 1]) = n
           /\ BytesFollow(n)
           /\ ~from_utf8_ok(NextChunk(n))) =>
              /\ pos' = pos + 1 + n
              /\ last'.ret = Other(NextChunk(n), "utf8")
      ]_vars

\* Four bytes that are no character, not all the continuation bytes alike,
\* were refused together.
C14_Witness ==
    /\ kind = "Plain"
    /\ ~lossy
    /\ last.ret.tag = "Other"
    /\ last.ret.kind = "utf8"
    /\ Len(last.ret.bytes) = 4
    /\ last.ret.bytes[2] # last.ret.bytes[4]
    /\ pos = 4

\* C15: for the byte read_char() reads first, every byte value 0..255 being
\* one (LeadingSources), remaining_byte_count is the count the high bits
\* announce (None for an invalid leading byte), and read_char() on a valid
\* leading byte followed by that many bytes consumes the leading byte and
\* exactly that many bytes.
C15_ContinuationCount ==
    [][/\ (kind = "Plain" /\ NextIsByte) =>
              remaining_byte_count(src[pos + 1]) = ExpectedCount(src[pos + 1])
       /\ (/\ kind = "Plain" /\ NextIsByte
           /\ ExpectedCount(src[pos + 1]) >= 0
           /\ BytesFollow(ExpectedCount(src[pos + 1]))) =>
              pos' = pos + 1 + ExpectedCount(src[pos + 1])
      ]_vars

\* A four-byte leading byte was read with three bytes after it, one byte of
\* the source being left.
C15_Witness ==
    /\ kind = "Plain"
    /\ Len(src) = 5
    /\ src[1] \in 241..247
    /\ Len(out) = 1
    /\ pos = 4

\* A read of the source that fails with an error std does not retry.
IsFailure(e) == e \in {EvUnexpectedEof, EvOtherError}

\* C16: when the next byte is a leading byte that announces n >= 1
\* continuation bytes and the source fails after k < n of them, read_char()
\* returns CharacterError::IoError of that failure whose bytes are the
\* leading byte followed by the k continuation bytes read before it.
C16_IoErrorHoldsBytesRead ==
    [][\A k \in 0..2 :
          (/\ kind = "Plain" /\ NextIsByte
           /\ k < ExpectedCount(src[pos + 1])
           /\ pos + 2 + k <= Len(src)
           /\ BytesFollow(k)
           /\ IsFailure(src[pos + 2 + k])) =>
              last'.ret = IoError(NextChunk(k), ErrorKindOf(src[pos + 2 + k]))
      ]_vars

\* C17: after every next() that yields a character, interrupted_count = 0.
C17_CharacterResetsCount ==
    (last.op = "next" /\ last.ret.tag = "Ok") => interrupted_count = 0

\* A custom stream was interrupted twice and then returned a character,
\* which the first next() yielded.
C17_Witness ==
    /\ kind = "Custom"
    /\ Len(src) = 3
    /\ src[1] = EvInterrupted
    /\ src[2] = EvInterrupted
    /\ pos = 3
    /\ out = <<OkChar(97)>>
    /\ last.op = "next"

IsInterrupted(r) == r.tag = "IoError" /\ r.kind = "Interrupted"

\* C18: no element next() yields is an I/O error of kind Interrupted,
\* whatever the stream returns.
C18_InterruptedNotYielded ==
    /\ \A i \in 1..Len(out) : ~IsInterrupted(out[i])
    /\ last.op = "next" => ~IsInterrupted(last.ret)

\* A custom stream was interrupted INTERRUPTED_MAXIMUM + 2 times, a character
\* behind: the first next() gave up and yielded nothing.
C18_Witness ==
    /\ kind = "Custom"
    /\ src = Interrupts(INTERRUPTED_MAXIMUM + 2) \o <<97>>
    /\ out = <<None>>
    /\ done
    /\ pos = INTERRUPTED_MAXIMUM + 2

\* C19: over a finite source (any bytes, strict or lossy, with interrupted
\* and failing reads, under any stream) a call reads no further than the end
\* of the source; every pull either ends the iteration or uses up a read
\* outcome of the source or a result cached by a peek; and the driver is
\* done after at most one pull per read outcome of the source and one more.
C19_FiniteSourceEnds ==
    /\ [](pos <= Len(src) /\ (Len(out) > Len(src) => done))
    /\ [][out' # out =>
             (done' \/ pos' > pos \/ Len(buffer') < Len(buffer))]_vars

\* A malformed input was pulled to its end, an element per byte, and the
\* pull after the last one ended the iteration.
C19_Witness ==
    /\ kind = "Plain"
    /\ Len(src) >= 2
    /\ Len(out) = Len(src) + 1
    /\ out[1].tag = "Other"
    /\ out[Len(src)] # None
    /\ out[Len(src) + 1] = None
    /\ done

\* C20: multi-peek buffer: after any sequence of peek(), reset_peek() and
\* read_char() the cursor is within the cached results,
\* position <= buffer.len(), and no peek() has panicked at buffer[position].
C20_CursorInBounds ==
    kind = "MultiPeek" => (position <= Len(buffer) /\ ~panicked)

\* C21: driver over a single-peek buffer, done or not, with any
\* interrupted_count: when peek() returned a character, the next() called
\* right after it yields that character.
C21_PeekThenNext ==
    [][(/\ kind = "Peek"
        /\ last.op = "peek"
        /\ last.ret.tag = "Ok"
        /\ out' # out) => last'.ret = last.ret]_vars

\* C22: in every state of the driver interrupted_count is at most
\* INTERRUPTED_MAXIMUM + 1 = 6; a next() whose first read is interrupted
\* with the counter already above INTERRUPTED_MAXIMUM makes no other read,
\* yields nothing and leaves the driver done; and a next() that stops at an
\* interrupted read, the stream having more to return, has the counter above
\* INTERRUPTED_MAXIMUM and leaves the driver done.
C22_CountIsBounded ==
    /\ [](interrupted_count \in 0..6)
    /\ [][(/\ kind = "Custom" /\ ~done
            /\ interrupted_count > INTERRUPTED_MAXIMUM
            /\ pos < Len(src) /\ src[pos + 1] = EvInterrupted
            /\ out' # out) =>
               (done' /\ last'.ret = None /\ pos' = pos + 1)]_vars
    /\ [][(/\ kind = "Custom"
            /\ out' # out
            /\ pos' > pos /\ pos' < Len(src)
            /\ src[pos'] = EvInterrupted) =>
               (done' /\ last'.ret = None
                /\ interrupted_count' > INTERRUPTED_MAXIMUM)]_vars

\* Six interrupted reads were retried and an error yielded, the counter left
\* at six; the next pull was interrupted at once and ended the iteration.
C22_Witness ==
    /\ kind = "Custom"
    /\ src = Interrupts(6) \o <<EvOtherError, EvInterrupted>>
    /\ Len(out) = 2
    /\ out[1].tag = "IoError"
    /\ out[2] = None
    /\ interrupted_count = 6
    /\ pos = 8
    /\ done

=============================================================================
